---- MODULE Spec2Model ----
(***************************************************************************)
(* State-machine model of server.js: the RSS fetch cycle, the article      *)
(* cache, the daily scheduler, and the /api/news, /api/fetch-now,          *)
(* /api/clear-cache, /api/summarize and /api/tts handlers.                 *)
(*                                                                         *)
(* Node runs one handler at a time; a handler is suspended only at an      *)
(* await.  Each action below is therefore one synchronous stretch of code  *)
(* between two awaits (or from a callback's start to its first await).     *)
(***************************************************************************)
EXTENDS Integers, Sequences, FiniteSets, TLC

\* ------------------------------------------------------------ bounds
\* Number of entries of FEEDS the model iterates over.
NumFeeds == 2
\* Clock ticks (hours) the model lets pass after server start.
MaxTicks == 2
\* Items a feed carries at most.
MaxItems == 2
\* Callers that may have a summarize / tts request in flight at once.
NumCallers == 2
\* HTTP clients that may have a news / fetch-now request in flight at once.
NumClients == 1
\* Days the scheduler is followed over, in the specification of the
\* scheduler alone.
MaxDays == 3

\* --------------------------------------------------- program constants
\* The hour of the daily fetch in the reference zone (lines 90, 102, 106).
TargetHour == 7
\* Hours of a reference-zone calendar day (setDate(getDate() + 1)).
HoursPerDay == 24
\* The local hour at which America/New_York changes its clock.
DstHour == 2

\* FEEDS, by short name, in list order.
FEEDS ==
  << "adexchanger", "digiday", "adweek", "martech", "exchangewire",
     "mediapost", "performancein", "searchengineland", "marketingland",
     "clickz", "campaignlive", "martechseries", "thedrum", "cmswire",
     "dmnews" >>

VARIABLES
  now,          \* the instant: hours since the reference zone's midnight
                \* of day 0
  zone,         \* the server's time zone, and the reference zone's clock
                \* change during the run, if any
  listening,    \* the app.listen callback has run
  cache,        \* the module-level cache object
  cycle,        \* the fetchRSSFeeds() invocations in flight, by owner
  timers,       \* pending setTimeout callbacks: the instants they are due,
                \* in the order they were armed
  client,       \* position of each client's news / fetch-now handler
  lastResp,     \* the response the latest step sent, if it sent one
  history,      \* observer: what has happened to the cache so far
  lastDone      \* observer: the fetch cycle the latest step completed, if any

newsVars == << now, zone, listening, cache, cycle, timers, client, lastResp,
               history, lastDone >>

VARIABLES
  caller,       \* position of each caller's summarize / tts handler
  dirExists,    \* the tts_cache directory exists
  files,        \* the files of tts_cache, by digest
  proxyResp,    \* the summarize / tts response the latest step sent, if any
  ttsSeen       \* observer: per text, what tts has done so far

proxyVars == << caller, dirExists, files, proxyResp, ttsSeen >>

\* ------------------------------------------------------------- dates
Day(t) == t \div HoursPerDay
Hour(t) == t % HoursPerDay

\* null, as cache.lastFetchDate starts and as clear-cache resets it.
Null == [fmt |-> "null", val |-> 0]
\* new Date().toISOString(): the instant, in ISO-8601 text.
ToISOString(t) == [fmt |-> "ISO-8601", val |-> t]
\* estTime.toDateString(): "Tue Nov 03 2026", the calendar day only.
ToDateString(t) == [fmt |-> "DateString", val |-> Day(t)]

\* The zones the server may run in.
ServerZones == { "UTC", "America/New_York" }
\* A run in which America/New_York keeps its offset, and the runs in which
\* it moves its clock by shift hours at DstHour of day 1.
NoChange == [server |-> "UTC", at |-> 0, shift |-> 0]
Zones ==
  { [server |-> z, at |-> HoursPerDay + DstHour, shift |-> d] :
      z \in ServerZones, d \in { -1, 0, 1 } }

\* now.toLocaleString("en-US", {timeZone: "America/New_York"}): the
\* reference zone's wall clock at instant t, in hours since its midnight of
\* day 0.
WallClock(t) == IF t >= zone.at THEN t + zone.shift ELSE t

\* new Date(string): the Date whose fields, read in the server's zone, are
\* those of the string.
EstTime(t) == WallClock(t)

\* date.getTime() for the Date whose fields in the server's zone are w, up
\* to the offset of the server's zone.  With the server in UTC every hour
\* of the wall clock is one hour of getTime().  With the server in
\* America/New_York it is the instant at which the wall clock reads w: the
\* earlier one if there are two, and w read with the offset before the
\* change if there is none.
GetTime(w) ==
  IF zone.server = "UTC" THEN w
  ELSE LET at == { t \in (w - 1)..(w + 1) : WallClock(t) = w }
       IN  IF at = { } THEN w
           ELSE CHOOSE t \in at : \A u \in at : t <= u

\* pubDate strings the feeds carry, and the instants they parse to.
Undefined == "<undefined>"
PubDates == { Undefined, "Fri, 02 Jan 1970 00:00:00 GMT",
              "Sat, 03 Jan 1970 00:00:00 GMT" }
\* new Date(s): the instant for a parseable string, Invalid Date otherwise.
NewDate(s) ==
  IF s = "Fri, 02 Jan 1970 00:00:00 GMT" THEN [nan |-> FALSE, t |-> 1]
  ELSE IF s = "Sat, 03 Jan 1970 00:00:00 GMT" THEN [nan |-> FALSE, t |-> 2]
  ELSE [nan |-> TRUE, t |-> 0]

\* x || '' for a string field.
OrEmpty(x) == IF x = Undefined \/ x = "" THEN "" ELSE x

\* ----------------------------------------------------- Array.sort
\* The comparator of line 68: new Date(b.date) - new Date(a.date).
Comparator(a, b) ==
  LET db == NewDate(b.date)
      da == NewDate(a.date)
  IN  IF db.nan \/ da.nan THEN [nan |-> TRUE, v |-> 0]
      ELSE [nan |-> FALSE, v |-> db.t - da.t]

\* Array.prototype.sort reads a NaN comparator result as +0.
CallCompare(a, b) ==
  LET r == Comparator(a, b) IN IF r.nan THEN 0 ELSE r.v

Reverse(s) == [k \in 1..Len(s) |-> s[Len(s) + 1 - k]]

RECURSIVE RunLength(_, _, _)
\* Length of the initial run of arr: the elements from idx on are taken
\* while they keep the direction of the first pair.
RunLength(arr, idx, descending) ==
  IF idx > Len(arr) THEN idx - 1
  ELSE LET order == CallCompare(arr[idx], arr[idx - 1])
       IN  IF descending /\ order >= 0 THEN idx - 1
           ELSE IF ~descending /\ order < 0 THEN idx - 1
           ELSE RunLength(arr, idx + 1, descending)

RECURSIVE BinarySearch(_, _, _, _)
\* Where pivot goes among the sorted arr[left..right-1].
BinarySearch(arr, pivot, left, right) ==
  IF left >= right THEN left
  ELSE LET mid == left + ((right - left) \div 2)
       IN  IF CallCompare(pivot, arr[mid]) < 0
           THEN BinarySearch(arr, pivot, left, mid)
           ELSE BinarySearch(arr, pivot, mid + 1, right)

InsertAt(arr, start, left) ==
  [k \in 1..Len(arr) |->
     IF k < left \/ k > start THEN arr[k]
     ELSE IF k = left THEN arr[start]
     ELSE arr[k - 1]]

RECURSIVE BinaryInsertionSort(_, _)
BinaryInsertionSort(arr, start) ==
  IF start > Len(arr) THEN arr
  ELSE BinaryInsertionSort(
         InsertAt(arr, start, BinarySearch(arr, arr[start], 1, start)),
         start + 1)

\* allItems.sort(comparator) as Node's engine runs it on a short array:
\* the initial run is kept (reversed when strictly descending) and the
\* remaining elements are inserted by binary insertion.
ArraySort(arr) ==
  IF Len(arr) < 2 THEN arr
  ELSE LET descending == CallCompare(arr[2], arr[1]) < 0
           run == RunLength(arr, 3, descending)
           head == SubSeq(arr, 1, run)
           made == (IF descending THEN Reverse(head) ELSE head)
                     \o SubSeq(arr, run + 1, Len(arr))
       IN  BinaryInsertionSort(made, run + 1)

\* ------------------------------------------------------- fetch cycle
\* What parser.parseURL(url) can resolve to: a rejection, or a feed whose
\* items (at most MaxItems of them) each carry one of the pubDates.
Fail == [ok |-> FALSE, items |-> << >>]
FeedResults ==
  { Fail } \cup
  { [ok |-> TRUE, items |-> its] :
      its \in UNION { [1..k -> PubDates] : k \in 0..MaxItems } }
\* The results of a run in which a feed is either rejected or carries one
\* item dated "Fri, 02 Jan 1970 00:00:00 GMT".
PlainResults ==
  { r \in FeedResults :
      r.ok => r.items = << "Fri, 02 Jan 1970 00:00:00 GMT" >> }

\* The map of lines 48-58 over the items of feed i.
MapItems(i, res) ==
  [k \in 1..Len(res.items) |->
     [date |-> OrEmpty(res.items[k]), source |-> FEEDS[i]]]

\* The mutation `allItems = items`: the earlier feeds' articles are lost.
TryFeedAssign(allItems, i, res) ==
  IF res.ok THEN MapItems(i, res) ELSE allItems

\* One pass of the loop body, lines 46-63: a rejected feed is logged and
\* contributes nothing.
TryFeed(allItems, i, res) ==
  IF res.ok THEN allItems \o MapItems(i, res) ELSE allItems

EmptyCache == [articles |-> << >>, timestamp |-> 0, lastFetchDate |-> Null]

\* The mutation that replaces the cache only when a cycle found articles
\* and otherwise leaves the cleared state in place.
NewCacheUnlessEmpty(allItems, t) ==
  IF allItems = << >> THEN EmptyCache
  ELSE [articles |-> ArraySort(allItems), timestamp |-> t,
        lastFetchDate |-> ToISOString(t)]

\* The object assigned to cache at lines 70-74.
NewCache(allItems, t) ==
  [articles |-> ArraySort(allItems), timestamp |-> t,
   lastFetchDate |-> ToISOString(t)]

Idle == [active |-> FALSE, pos |-> 0, allItems |-> << >>, results |-> << >>]
Started == [active |-> TRUE, pos |-> 1, allItems |-> << >>, results |-> << >>]

ClientIds == 1..NumClients
Listen == << "listen", 0 >>
Timer == << "timer", 0 >>
Handler(c) == << "client", c >>
Owners == { Listen, Timer } \cup { Handler(c) : c \in ClientIds }

\* ---------------------------------------------------------- scheduler
\* The mutation `currentHour >= 7`.
ShouldFetchFromTargetHour ==
  /\ Hour(EstTime(now)) >= TargetHour
  /\ cache.lastFetchDate # ToDateString(EstTime(now))

\* shouldFetchToday(), lines 83-91.
ShouldFetchToday ==
  /\ Hour(EstTime(now)) = TargetHour
  /\ cache.lastFetchDate # ToDateString(EstTime(now))

\* nextFetchTime of lines 100-110, called at instant t: the fields of
\* estTime moved to TargetHour of the same day or of the next.
NextFetchTime(t) ==
  IF Hour(EstTime(t)) >= TargetHour
  THEN (Day(EstTime(t)) + 1) * HoursPerDay + TargetHour
  ELSE Day(EstTime(t)) * HoursPerDay + TargetHour

\* timeUntilNextFetch, line 112.
TimeUntilNextFetch(t) == GetTime(NextFetchTime(t)) - GetTime(EstTime(t))

\* setTimeout(callback, timeUntilNextFetch), lines 118-121, called at
\* instant t: the callback is due timeUntilNextFetch later.
SetTimeout(pending, t) == Append(pending, t + TimeUntilNextFetch(t))

\* The pending callbacks without the k-th, which has run.
Expire(pending, k) ==
  SubSeq(pending, 1, k - 1) \o SubSeq(pending, k + 1, Len(pending))

\* ---------------------------------------------------------- responses
NoResp ==
  [kind |-> "none", articles |-> << >>, count |-> 0, lastFetch |-> Null,
   cacheStatus |-> "", afterNonEmpty |-> FALSE, allFailedSinceClear |-> FALSE]

\* The mutation that builds the body from the articles read before the
\* await and the lastFetchDate read after it.
NewsBodyStale(c, h, status) ==
  [kind |-> "news", articles |-> cache.articles,
   count |-> Len(cache.articles), lastFetch |-> c.lastFetchDate,
   cacheStatus |-> status, afterNonEmpty |-> h.everNonEmpty,
   allFailedSinceClear |-> h.allFailedSinceClear]

\* res.json({articles, lastFetch, cacheStatus}) of lines 134-138, 143-147,
\* read from cache c; h is the observer's record at that moment.
NewsBody(c, h, status) ==
  [kind |-> "news", articles |-> c.articles, count |-> Len(c.articles),
   lastFetch |-> c.lastFetchDate, cacheStatus |-> status,
   afterNonEmpty |-> h.everNonEmpty,
   allFailedSinceClear |-> h.allFailedSinceClear]

\* res.json({message, articlesCount, lastFetch}) of lines 268-272.
FetchNowBody(c, h) ==
  [kind |-> "fetch-now", articles |-> << >>, count |-> Len(c.articles),
   lastFetch |-> c.lastFetchDate, cacheStatus |-> "",
   afterNonEmpty |-> h.everNonEmpty,
   allFailedSinceClear |-> h.allFailedSinceClear]

ClearBody ==
  [kind |-> "clear-cache", articles |-> << >>, count |-> 0,
   lastFetch |-> Null, cacheStatus |-> "", afterNonEmpty |-> FALSE,
   allFailedSinceClear |-> FALSE]

\* ------------------------------------------------------------ observer
\* everNonEmpty: some cycle has written a non-empty list;
\* everCleared: clear-cache has run;
\* allFailedSinceClear: clear-cache ran with no cycle in flight and every
\* feed has been rejected since.
InitHistory ==
  [everNonEmpty |-> FALSE, everCleared |-> FALSE,
   allFailedSinceClear |-> FALSE]

AfterFeed(h, res) ==
  [h EXCEPT !.allFailedSinceClear = @ /\ ~res.ok]

AfterWrite(h, res, c) ==
  [h EXCEPT !.allFailedSinceClear = @ /\ ~res.ok,
            !.everNonEmpty = @ \/ c.articles # << >>]

NoDone == [results |-> << >>, allItems |-> << >>]

\* ------------------------------------------------------------- actions
\* The mutation that arms the timer at once and fetches as well.
ListenCallbackArmsAtOnce ==
  /\ ~listening
  /\ listening' = TRUE
  /\ cycle' = [cycle EXCEPT ![Listen] = Started]
  /\ timers' = SetTimeout(timers, now)
  /\ lastResp' = NoResp
  /\ lastDone' = NoDone
  /\ UNCHANGED << zone, now, cache, client, history, proxyVars >>

\* The app.listen callback, lines 276-292.
ListenCallback ==
  /\ ~listening
  /\ listening' = TRUE
  /\ IF Len(cache.articles) = 0
     THEN /\ cycle' = [cycle EXCEPT ![Listen] = Started]
          /\ timers' = timers
     ELSE /\ timers' = SetTimeout(timers, now)
          /\ cycle' = cycle
  /\ lastResp' = NoResp
  /\ lastDone' = NoDone
  /\ UNCHANGED << zone, now, cache, client, history, proxyVars >>

\* An hour passes.  A due timer fires before the hour is over.
Tick(end) ==
  /\ now < end
  /\ \A k \in 1..Len(timers) : timers[k] > now
  /\ now' = now + 1
  /\ lastResp' = NoResp
  /\ lastDone' = NoDone
  /\ UNCHANGED << zone, listening, cache, cycle, timers, client, history,
                  proxyVars >>

\* The mutation that awaits the fetch before it arms the next timer: the
\* callback's first stretch only starts the fetch.
TimerFiresAwaitsFetch ==
  \E k \in 1..Len(timers) :
    /\ timers[k] <= now
    /\ ~cycle[Timer].active
    /\ cycle' = [cycle EXCEPT ![Timer] = Started]
    /\ timers' = Expire(timers, k)
    /\ lastResp' = NoResp
    /\ lastDone' = NoDone
    /\ UNCHANGED << zone, now, listening, cache, client, history, proxyVars >>

\* The setTimeout callback, lines 118-121: fetchRSSFeeds() is started and
\* not awaited, and scheduleNextFetch() arms the next timer at once.
TimerFires ==
  \E k \in 1..Len(timers) :
    /\ timers[k] <= now
    /\ ~cycle[Timer].active
    /\ cycle' = [cycle EXCEPT ![Timer] = Started]
    /\ timers' = SetTimeout(Expire(timers, k), now)
    /\ lastResp' = NoResp
    /\ lastDone' = NoDone
    /\ UNCHANGED << zone, now, listening, cache, client, history, proxyVars >>

\* parser.parseURL of a feed other than the last one settles, lines 45-64.
FeedResolved(o, R) ==
  \E res \in R :
    /\ cycle[o].active
    /\ cycle[o].pos < NumFeeds
    /\ cycle' = [cycle EXCEPT ![o] =
                   [@ EXCEPT !.pos = @ + 1,
                             !.allItems = TryFeed(@, cycle[o].pos, res),
                             !.results = Append(@, res)]]
    /\ history' = AfterFeed(history, res)
    /\ lastResp' = NoResp
    /\ lastDone' = NoDone
    /\ UNCHANGED << zone, now, listening, cache, timers, client, proxyVars >>

\* parser.parseURL of the last feed settles: the loop ends and lines 66-76
\* sort the items and replace the cache, with no await in between.
LastFeedResolved(o, res) ==
  LET all == TryFeed(cycle[o].allItems, cycle[o].pos, res)
  IN  /\ cycle[o].active
      /\ cycle[o].pos = NumFeeds
      /\ cache' = NewCache(all, now)
      /\ history' = AfterWrite(history, res, cache')
      /\ lastDone' = [results |-> Append(cycle[o].results, res),
                      allItems |-> all]

\* The initial fetch ends; its .then() arms the first timer, 285-287.
ListenCycleDone(R) ==
  \E res \in R :
    /\ LastFeedResolved(Listen, res)
    /\ cycle' = [cycle EXCEPT ![Listen] = Idle]
    /\ timers' = SetTimeout(timers, now)
    /\ lastResp' = NoResp
    /\ UNCHANGED << zone, now, listening, client, proxyVars >>

\* A timer-started fetch ends; nothing awaits it.
TimerCycleDone(R) ==
  \E res \in R :
    /\ LastFeedResolved(Timer, res)
    /\ cycle' = [cycle EXCEPT ![Timer] = Idle]
    /\ lastResp' = NoResp
    /\ UNCHANGED << zone, now, listening, timers, client, proxyVars >>

\* GET /api/news at the target hour: line 129 starts the catch-up fetch.
GetNewsCatchUp(c) ==
  /\ listening
  /\ client[c] = "idle"
  /\ ShouldFetchToday
  /\ cycle' = [cycle EXCEPT ![Handler(c)] = Started]
  /\ client' = [client EXCEPT ![c] = "catch-up"]
  /\ lastResp' = NoResp
  /\ lastDone' = NoDone
  /\ UNCHANGED << zone, now, listening, cache, timers, history, proxyVars >>

\* The mutation that answers from the cache and refreshes it in the
\* background.
GetNewsCachedRefreshes(c) ==
  /\ listening
  /\ client[c] = "idle"
  /\ ~ShouldFetchToday
  /\ Len(cache.articles) > 0
  /\ lastResp' = NewsBody(cache, history, "serving cached data")
  /\ cycle' = [cycle EXCEPT ![Handler(c)] = Started]
  /\ lastDone' = NoDone
  /\ UNCHANGED << zone, now, listening, cache, timers, client, history,
                  proxyVars >>

\* GET /api/news with cached articles: lines 133-138.
GetNewsCached(c) ==
  /\ listening
  /\ client[c] = "idle"
  /\ ~ShouldFetchToday
  /\ Len(cache.articles) > 0
  /\ lastResp' = NewsBody(cache, history, "serving cached data")
  /\ lastDone' = NoDone
  /\ UNCHANGED << zone, now, listening, cache, cycle, timers, client, history,
                  proxyVars >>

\* GET /api/news with an empty cache: line 142 starts a fetch.
GetNewsEmpty(c) ==
  /\ listening
  /\ client[c] = "idle"
  /\ ~ShouldFetchToday
  /\ Len(cache.articles) = 0
  /\ cycle' = [cycle EXCEPT ![Handler(c)] = Started]
  /\ client' = [client EXCEPT ![c] = "initial"]
  /\ lastResp' = NoResp
  /\ lastDone' = NoDone
  /\ UNCHANGED << zone, now, listening, cache, timers, history, proxyVars >>

\* The catch-up fetch ends with articles cached: lines 133-138.
CatchUpServes(c, R) ==
  \E res \in R :
    /\ client[c] = "catch-up"
    /\ LastFeedResolved(Handler(c), res)
    /\ Len(cache'.articles) > 0
    /\ lastResp' = NewsBody(cache', history', "serving cached data")
    /\ cycle' = [cycle EXCEPT ![Handler(c)] = Idle]
    /\ client' = [client EXCEPT ![c] = "idle"]
    /\ UNCHANGED << zone, now, listening, timers, proxyVars >>

\* The catch-up fetch ends with nothing cached: line 142 fetches again.
CatchUpRefetches(c, R) ==
  \E res \in R :
    /\ client[c] = "catch-up"
    /\ LastFeedResolved(Handler(c), res)
    /\ Len(cache'.articles) = 0
    /\ cycle' = [cycle EXCEPT ![Handler(c)] = Started]
    /\ client' = [client EXCEPT ![c] = "initial"]
    /\ lastResp' = NoResp
    /\ UNCHANGED << zone, now, listening, timers, proxyVars >>

\* The fetch of line 142 ends: lines 143-147 answer with the cache as it is.
InitialDone(c, R) ==
  \E res \in R :
    /\ client[c] = "initial"
    /\ LastFeedResolved(Handler(c), res)
    /\ lastResp' = NewsBody(cache', history', "initial fetch")
    /\ cycle' = [cycle EXCEPT ![Handler(c)] = Idle]
    /\ client' = [client EXCEPT ![c] = "idle"]
    /\ UNCHANGED << zone, now, listening, timers, proxyVars >>

\* POST /api/fetch-now, line 267.
PostFetchNow(c) ==
  /\ listening
  /\ client[c] = "idle"
  /\ cycle' = [cycle EXCEPT ![Handler(c)] = Started]
  /\ client' = [client EXCEPT ![c] = "fetch-now"]
  /\ lastResp' = NoResp
  /\ lastDone' = NoDone
  /\ UNCHANGED << zone, now, listening, cache, timers, history, proxyVars >>

\* The manual fetch ends: lines 268-272.
FetchNowDone(c, R) ==
  \E res \in R :
    /\ client[c] = "fetch-now"
    /\ LastFeedResolved(Handler(c), res)
    /\ lastResp' = FetchNowBody(cache', history')
    /\ cycle' = [cycle EXCEPT ![Handler(c)] = Idle]
    /\ client' = [client EXCEPT ![c] = "idle"]
    /\ UNCHANGED << zone, now, listening, timers, proxyVars >>

\* POST /api/clear-cache, lines 259-262.
PostClearCache ==
  /\ listening
  /\ cache' = EmptyCache
  /\ lastResp' = ClearBody
  /\ history' = [history EXCEPT
                   !.everCleared = TRUE,
                   !.allFailedSinceClear = \A o \in Owners : ~cycle[o].active]
  /\ lastDone' = NoDone
  /\ UNCHANGED << zone, now, listening, cycle, timers, client, proxyVars >>

\* ------------------------------------------------------ proxy inputs
\* Bodies of POST /api/summarize and POST /api/tts: text absent, empty, or
\* one of two texts.
Texts == { "a", "b" }
Bodies == { Undefined, "" } \cup Texts

\* The mutation `text === undefined`: an empty text passes.
FalsyOnlyUndefined(text) == text = Undefined

\* !text, lines 153 and 188.
Falsy(text) == text = Undefined \/ text = ""

CallerIds == 1..NumCallers
Waiting(pc, text) == [pc |-> pc, text |-> text]
CallerIdle == Waiting("idle", "")

\* ------------------------------------------------------------ summarize
\* Strings the chat-completion API may answer with, as character sequences.
Contents ==
  { << >>,
    << "a", " ", "-", " ", "b" >>,
    << "-", " ", "a", "\n", "-", " ", "b" >>,
    << " ", "-", "a", "\n", "\n", " ", "-", " ", "b", " ", "\n", "a", "\n" >>,
    << "-", " ", "-", "a" >>,
    << "-", " ", "a", "\n", "-", "\n", " ", "\n", "-", " ", "b" >>,
    << "-" >> }

IsSpace(c) == c \in { " ", "\n" }

RECURSIVE TrimStart(_)
TrimStart(str) ==
  IF str # << >> /\ IsSpace(Head(str)) THEN TrimStart(Tail(str)) ELSE str

RECURSIVE TrimEnd(_)
TrimEnd(str) ==
  IF str # << >> /\ IsSpace(str[Len(str)])
  THEN TrimEnd(SubSeq(str, 1, Len(str) - 1))
  ELSE str

\* String.prototype.trim.
Trim(str) == TrimEnd(TrimStart(str))

RECURSIVE SplitLines(_, _, _)
\* str.split(/\n+/): cur is the piece being read, inRun whether the
\* previous character was a newline.
SplitLines(str, cur, inRun) ==
  IF str = << >> THEN << cur >>
  ELSE IF Head(str) = "\n"
       THEN IF inRun THEN SplitLines(Tail(str), cur, TRUE)
            ELSE << cur >> \o SplitLines(Tail(str), << >>, TRUE)
       ELSE SplitLines(Tail(str), Append(cur, Head(str)), FALSE)

\* line.replace(/^\s*-\s*/, '').
StripBullet(line) ==
  LET rest == TrimStart(line)
  IN  IF rest # << >> /\ Head(rest) = "-" THEN TrimStart(Tail(rest))
      ELSE line

\* The mutation without .filter(Boolean).
ListItemsUnfiltered(raw) ==
  [k \in 1..Len(SplitLines(raw, << >>, FALSE)) |->
     Trim(StripBullet(SplitLines(raw, << >>, FALSE)[k]))]

\* The items of line 176.
ListItems(raw) ==
  SelectSeq([k \in 1..Len(SplitLines(raw, << >>, FALSE)) |->
               Trim(StripBullet(SplitLines(raw, << >>, FALSE)[k]))],
            LAMBDA item : item # << >>)

RECURSIVE JoinItems(_)
JoinItems(items) ==
  IF items = << >> THEN << >>
  ELSE << "<li>" >> \o Head(items) \o << "</li>" >> \o JoinItems(Tail(items))

\* Lines 173-178: the summary made of the upstream answer's content
\* (content absent: data.choices?.[0]?.message?.content is undefined).
Summary(data) ==
  LET summaryRaw == IF data.hasContent THEN Trim(data.content) ELSE << >>
  IN  IF summaryRaw # << >> /\ Head(summaryRaw) = "-"
      THEN << "<ul style=\"padding-left:1.5em;list-style:disc;\">" >>
             \o JoinItems(ListItems(summaryRaw)) \o << "</ul>" >>
      ELSE summaryRaw

\* What the chat-completion call can come to: fetch rejects; the API
\* answers 200 with a completion or without choices; it answers 401 with a
\* JSON error body; it answers 502 with a body that is not JSON.
SummarizeOutcomes ==
  { [kind |-> "rejected", status |-> 0, hasContent |-> FALSE,
     content |-> << >>],
    [kind |-> "json", status |-> 200, hasContent |-> FALSE,
     content |-> << >>],
    [kind |-> "json", status |-> 401, hasContent |-> FALSE,
     content |-> << >>],
    [kind |-> "not-json", status |-> 502, hasContent |-> FALSE,
     content |-> << >>] }
    \cup { [kind |-> "json", status |-> 200, hasContent |-> TRUE,
            content |-> c] : c \in Contents }

UpstreamFailed(out) == out.kind = "rejected" \/ out.status \notin 200..299

\* ------------------------------------------------------------------ tts
\* crypto.createHash('sha256').update(text).digest('hex'), by its first
\* eight digits.
Digest(text) ==
  IF text = "a" THEN "ca978112"
  ELSE IF text = "b" THEN "3e23e816"
  ELSE "e3b0c442"
Digests == { Digest(t) : t \in Texts \cup { "" } }

\* Audio the speech API may return for a text, by its first byte: it need
\* not be the same on every call.
Audio == { << 73 >>, << 255 >> }

NoFile == [exists |-> FALSE, bytes |-> << >>]
FileOf(bytes) == [exists |-> TRUE, bytes |-> bytes]

\* fs.writeFileSync(cacheFile, audioBuffer), line 242, opens the file for
\* writing (creating or emptying it), writes and closes.  It returns with
\* the whole buffer written; or it throws at the open, the file staying as
\* it was (old); or it throws at a write, the file then holding a proper
\* prefix of the buffer.
WriteFileSync(old, bytes) ==
  { [threw |-> FALSE, created |-> TRUE, file |-> FileOf(bytes)],
    [threw |-> TRUE, created |-> FALSE, file |-> old] }
    \cup { [threw |-> TRUE, created |-> TRUE,
            file |-> FileOf(SubSeq(bytes, 1, k))] : k \in 0..(Len(bytes) - 1) }

\* The mutation that never finds the cached file.
CacheFileNeverExists(text) == FALSE

\* fs.existsSync(cacheFile), line 206.
CacheFileExists(text) == files[Digest(text)].exists

\* What the speech call can come to: fetch rejects, the API answers with a
\* failure status and a JSON error body, or it answers 200 with audio.
TtsOutcomes ==
  { [kind |-> "rejected", status |-> 0, bytes |-> << >>],
    [kind |-> "json", status |-> 401, bytes |-> << >>],
    [kind |-> "json", status |-> 429, bytes |-> << >>] }
    \cup { [kind |-> "audio", status |-> 200, bytes |-> b] : b \in Audio }

NoHeaders == [contentType |-> "", contentLength |-> 0, cacheControl |-> ""]
\* The three setHeader calls of lines 209-211 and 248-250.
AudioHeaders(size) ==
  [contentType |-> "audio/mpeg", contentLength |-> size,
   cacheControl |-> "public, max-age=3600"]

\* ------------------------------------------------------ proxy responses
NoPrior == [some |-> FALSE, bytes |-> << >>]
NoProxyResp ==
  [endpoint |-> "none", status |-> 0, error |-> "", hasDetails |-> FALSE,
   summary |-> << >>, bytes |-> << >>, headers |-> NoHeaders,
   text |-> "", source |-> "", calls |-> 0, wrote |-> FALSE,
   prior |-> NoPrior, upstreamFailed |-> FALSE, hasContent |-> FALSE,
   content |-> << >>]

\* res.status(status).json({error}) / ({error, details}).
ErrorResp(endpoint, text, status, error, hasDetails, calls, failed) ==
  [NoProxyResp EXCEPT !.endpoint = endpoint, !.status = status,
                      !.error = error, !.hasDetails = hasDetails,
                      !.text = text, !.calls = calls,
                      !.upstreamFailed = failed]

\* res.json({summary}), line 179.
SummaryResp(text, out) ==
  [NoProxyResp EXCEPT !.endpoint = "summarize", !.status = 200,
                      !.summary = Summary(out), !.text = text,
                      !.calls = 1, !.upstreamFailed = UpstreamFailed(out),
                      !.hasContent = out.hasContent,
                      !.content = out.content]

\* The audio response, from the cache file or from the upstream answer.
AudioResp(text, bytes, source, calls, wrote) ==
  [NoProxyResp EXCEPT !.endpoint = "tts", !.status = 200, !.bytes = bytes,
                      !.headers = AudioHeaders(Len(bytes)), !.text = text,
                      !.source = source, !.calls = calls, !.wrote = wrote,
                      !.prior = ttsSeen[text].first]

\* first: the bytes of the first answer whose write succeeded; overlapped:
\* two requests for the text were in flight together; truncated: a write
\* for the text threw after the file was created.
InitSeen ==
  [t \in Bodies |->
     [first |-> NoPrior, overlapped |-> FALSE, truncated |-> FALSE]]

TtsInFlight(text) ==
  { s \in CallerIds : caller[s] = Waiting("tts", text) }

\* -------------------------------------------------------- proxy actions
\* POST /api/summarize without a text: line 153.
SummarizeMissingText(text) ==
  /\ listening
  /\ Falsy(text)
  /\ proxyResp' =
       ErrorResp("summarize", text, 400, "Missing text", FALSE, 0, FALSE)
  /\ UNCHANGED << caller, dirExists, files, ttsSeen, newsVars >>

\* POST /api/summarize with a text: the call of line 155 is issued.
SummarizeCalls(s, text) ==
  /\ listening
  /\ caller[s] = CallerIdle
  /\ ~Falsy(text)
  /\ caller' = [caller EXCEPT ![s] = Waiting("summarize", text)]
  /\ proxyResp' = NoProxyResp
  /\ UNCHANGED << dirExists, files, ttsSeen, newsVars >>

\* fetch rejects, or openaiRes.json() throws: the catch of lines 180-182.
SummarizeThrows(s) ==
  \E out \in SummarizeOutcomes :
    /\ caller[s].pc = "summarize"
    /\ out.kind # "json"
    /\ proxyResp' = ErrorResp("summarize", caller[s].text, 500,
                              "Failed to summarize", TRUE, 1, TRUE)
    /\ caller' = [caller EXCEPT ![s] = CallerIdle]
    /\ UNCHANGED << dirExists, files, ttsSeen, newsVars >>

\* The API answers with a JSON body: lines 171-179.
SummarizeAnswers(s) ==
  \E out \in SummarizeOutcomes :
    /\ caller[s].pc = "summarize"
    /\ out.kind = "json"
    /\ proxyResp' = SummaryResp(caller[s].text, out)
    /\ caller' = [caller EXCEPT ![s] = CallerIdle]
    /\ UNCHANGED << dirExists, files, ttsSeen, newsVars >>

\* POST /api/tts without a text: line 188.
TtsMissingText(text) ==
  /\ listening
  /\ Falsy(text)
  /\ proxyResp' = ErrorResp("tts", text, 400, "Missing text", FALSE, 0, FALSE)
  /\ UNCHANGED << caller, dirExists, files, ttsSeen, newsVars >>

\* POST /api/tts, the directory is missing and mkdirSync throws: the catch
\* of lines 252-255.
TtsMkdirThrows(text) ==
  /\ listening
  /\ ~Falsy(text)
  /\ ~dirExists
  /\ proxyResp' = ErrorResp("tts", text, 500, "Failed to generate speech",
                            TRUE, 0, FALSE)
  /\ UNCHANGED << caller, dirExists, files, ttsSeen, newsVars >>

\* POST /api/tts with the file cached: lines 197-214.
TtsServesCached(text) ==
  /\ listening
  /\ ~Falsy(text)
  /\ CacheFileExists(text)
  /\ dirExists' = TRUE
  /\ proxyResp' = AudioResp(text, files[Digest(text)].bytes, "cache", 0, FALSE)
  /\ UNCHANGED << caller, files, ttsSeen, newsVars >>

\* POST /api/tts with no file cached: lines 197-230, the speech call is
\* issued.
TtsCalls(s, text) ==
  /\ listening
  /\ caller[s] = CallerIdle
  /\ ~Falsy(text)
  /\ ~CacheFileExists(text)
  /\ dirExists' = TRUE
  /\ caller' = [caller EXCEPT ![s] = Waiting("tts", text)]
  /\ ttsSeen' = [ttsSeen EXCEPT ![text].overlapped =
                   @ \/ TtsInFlight(text) # {}]
  /\ proxyResp' = NoProxyResp
  /\ UNCHANGED << files, newsVars >>

\* fetch rejects: the catch of lines 252-255.
TtsThrows(s) ==
  /\ caller[s].pc = "tts"
  /\ proxyResp' = ErrorResp("tts", caller[s].text, 500,
                            "Failed to generate speech", TRUE, 1, TRUE)
  /\ caller' = [caller EXCEPT ![s] = CallerIdle]
  /\ UNCHANGED << dirExists, files, ttsSeen, newsVars >>

\* The API answers with a failure status: lines 232-236.
TtsUpstreamRefuses(s) ==
  \E out \in TtsOutcomes :
    /\ caller[s].pc = "tts"
    /\ out.kind = "json"
    /\ proxyResp' = ErrorResp("tts", caller[s].text, out.status,
                              "TTS failed", TRUE, 1, TRUE)
    /\ caller' = [caller EXCEPT ![s] = CallerIdle]
    /\ UNCHANGED << dirExists, files, ttsSeen, newsVars >>

\* The API answers with audio: lines 238-251.  Whatever writeFileSync
\* does, the audio is sent.
TtsAnswers(s) ==
  \E out \in TtsOutcomes :
    LET text == caller[s].text
    IN  /\ caller[s].pc = "tts"
        /\ out.kind = "audio"
        /\ \E w \in WriteFileSync(files[Digest(text)], out.bytes) :
             /\ files' = [files EXCEPT ![Digest(text)] = w.file]
             /\ proxyResp' =
                  AudioResp(text, out.bytes, "upstream", 1, ~w.threw)
             /\ ttsSeen' =
                  [ttsSeen EXCEPT
                     ![text].first =
                       IF ~w.threw /\ ~@.some
                       THEN [some |-> TRUE, bytes |-> out.bytes]
                       ELSE @,
                     ![text].truncated = @ \/ (w.threw /\ w.created)]
        /\ caller' = [caller EXCEPT ![s] = CallerIdle]
        /\ UNCHANGED << dirExists, newsVars >>

\* -------------------------------------------------------- specifications
\* The module as loaded, lines 10-38: nothing cached, no timer, no handler
\* in flight, the cache directory not yet made.
Loaded ==
  /\ listening = FALSE
  /\ cache = EmptyCache
  /\ cycle = [o \in Owners |-> Idle]
  /\ timers = << >>
  /\ client = [c \in ClientIds |-> "idle"]
  /\ lastResp = NoResp
  /\ history = InitHistory
  /\ lastDone = NoDone
  /\ caller = [s \in CallerIds |-> CallerIdle]
  /\ dirExists = FALSE
  /\ files = [d \in Digests |-> NoFile]
  /\ proxyResp = NoProxyResp
  /\ ttsSeen = InitSeen

\* The server starts an hour before the target hour, on a day without a
\* clock change.
Init ==
  /\ now = TargetHour - 1
  /\ zone = NoChange
  /\ Loaded

\* The server starts at any hour up to the clock change of day 1, in any
\* of the zones, with or without a clock change.
InitSchedule ==
  /\ now \in 0..(HoursPerDay + DstHour)
  /\ zone \in Zones
  /\ Loaded

vars == << newsVars, proxyVars >>

\* The server with its timer and clients, the feeds carrying at most one
\* distinct parseable date.
NextNews ==
  \/ ListenCallback
  \/ Tick(TargetHour - 1 + MaxTicks)
  \/ TimerFires
  \/ \E o \in Owners : FeedResolved(o, PlainResults)
  \/ ListenCycleDone(PlainResults)
  \/ TimerCycleDone(PlainResults)
  \/ \E c \in ClientIds : GetNewsCatchUp(c)
  \/ \E c \in ClientIds : GetNewsCached(c)
  \/ \E c \in ClientIds : GetNewsEmpty(c)
  \/ \E c \in ClientIds : CatchUpServes(c, PlainResults)
  \/ \E c \in ClientIds : CatchUpRefetches(c, PlainResults)
  \/ \E c \in ClientIds : InitialDone(c, PlainResults)
  \/ \E c \in ClientIds : PostFetchNow(c)
  \/ \E c \in ClientIds : FetchNowDone(c, PlainResults)
  \/ PostClearCache

SpecNews == Init /\ [][NextNews]_vars

\* The fetch cycle on its own: the startup cycle over every feed result,
\* and clear-cache.
NextCycle ==
  \/ ListenCallback
  \/ FeedResolved(Listen, FeedResults)
  \/ ListenCycleDone(FeedResults)
  \/ PostClearCache

SpecCycle == Init /\ [][NextCycle]_vars

\* The two proxy endpoints.
NextProxy ==
  \/ ListenCallback
  \/ \E text \in Bodies : SummarizeMissingText(text)
  \/ \E s \in CallerIds, text \in Bodies : SummarizeCalls(s, text)
  \/ \E s \in CallerIds : SummarizeThrows(s)
  \/ \E s \in CallerIds : SummarizeAnswers(s)
  \/ \E text \in Bodies : TtsMissingText(text)
  \/ \E text \in Bodies : TtsMkdirThrows(text)
  \/ \E text \in Bodies : TtsServesCached(text)
  \/ \E s \in CallerIds, text \in Bodies : TtsCalls(s, text)
  \/ \E s \in CallerIds : TtsThrows(s)
  \/ \E s \in CallerIds : TtsUpstreamRefuses(s)
  \/ \E s \in CallerIds : TtsAnswers(s)

SpecProxy == Init /\ [][NextProxy]_vars

\* The scheduler alone, over MaxDays days: startup, the clock, the timer
\* and the fetch cycles it starts.
NextSchedule ==
  \/ ListenCallback
  \/ Tick(MaxDays * HoursPerDay)
  \/ TimerFires
  \/ \E o \in { Listen, Timer } : FeedResolved(o, PlainResults)
  \/ ListenCycleDone(PlainResults)
  \/ TimerCycleDone(PlainResults)

SpecSchedule == InitSchedule /\ [][NextSchedule]_vars

\* ------------------------------------------------------------ claims
RECURSIVE Flatten(_)
Flatten(groups) ==
  IF groups = << >> THEN << >> ELSE Head(groups) \o Flatten(Tail(groups))

\* The groups a cycle should have gathered from the results of its feeds:
\* the articles of each feed that resolved, nothing for a rejected one.
ExpectedItems(results) ==
  Flatten([i \in 1..Len(results) |->
             IF results[i].ok
             THEN [k \in 1..Len(results[i].items) |->
                     [date |-> OrEmpty(results[i].items[k]),
                      source |-> FEEDS[i]]]
             ELSE << >>])

Occurrences(x, s) == Cardinality({ k \in 1..Len(s) : s[k] = x })
SameArticles(s, t) ==
  /\ Len(s) = Len(t)
  /\ \A k \in 1..Len(s) : Occurrences(s[k], s) = Occurrences(s[k], t)

CycleJustCompleted == Len(lastDone.results) = NumFeeds
Parseable(a) == ~NewDate(a.date).nan

\* C4: whichever feeds are rejected, the cycle runs to its end and replaces
\* the cache; the list it gathered is the articles of the feeds that
\* resolved, group after group in FEEDS order, and the cached list holds
\* exactly those articles.
C4_PartialFailure ==
  /\ \A o \in Owners :
       cycle[o].active =>
         cycle[o].allItems = ExpectedItems(cycle[o].results)
  /\ CycleJustCompleted =>
       /\ lastDone.allItems = ExpectedItems(lastDone.results)
       /\ SameArticles(cache.articles, ExpectedItems(lastDone.results))
       /\ cache.timestamp = now
       /\ cache.lastFetchDate = ToISOString(now)

\* A cycle whose first feed was rejected and whose last feed carried two
\* items has completed.
C4_Witness ==
  /\ CycleJustCompleted
  /\ ~lastDone.results[1].ok
  /\ lastDone.results[NumFeeds].ok
  /\ Len(lastDone.results[NumFeeds].items) = 2
  /\ Len(cache.articles) = 2

\* C5: cache.articles is in descending order of parsed date (stated for
\* the articles whose dates parse).
C5_SortedDescending ==
  \A i, j \in 1..Len(cache.articles) :
    (i < j /\ Parseable(cache.articles[i]) /\ Parseable(cache.articles[j]))
      => NewDate(cache.articles[i].date).t >= NewDate(cache.articles[j].date).t

\* C6: in the list a completed cycle wrote, an article with an empty date
\* comes after every article whose date parses to an instant after the
\* epoch.
C6_EmptyDateLast ==
  CycleJustCompleted =>
    \A i, j \in 1..Len(cache.articles) :
      (cache.articles[i].date = "" /\ Parseable(cache.articles[j])
         /\ NewDate(cache.articles[j].date).t > 0)
        => j < i

\* C1: with no clear-cache so far, a GET /api/news answered after some
\* cycle has cached a non-empty list never carries an empty list.
C1_NeverEmptyAgain ==
  (lastResp.kind = "news" /\ lastResp.afterNonEmpty /\ ~history.everCleared)
    => lastResp.articles # << >>

\* C2: while the cache holds the record of a fetch completed today,
\* shouldFetchToday() is false, so no request starts another catch-up.
C2_OncePerDay ==
  (cache.lastFetchDate # Null
     /\ Day(WallClock(cache.timestamp)) = Day(WallClock(now)))
    => ~ShouldFetchToday

\* C3 as stated: after clear-cache, with every feed rejected since, GET
\* /api/news answers articles = [] and lastFetch = null.
C3_ClearedThenAllFail ==
  (lastResp.kind = "news" /\ lastResp.allFailedSinceClear)
    => (lastResp.articles = << >> /\ lastResp.lastFetch = Null)

\* C3 as amended: after clear-cache, with every feed rejected since, GET
\* /api/news answers articles = [] and, as lastFetch, the time at which the
\* fetch cycle the request ran has just completed; the answer comes from
\* the line-142 branch.
C3_ClearedThenAllFailAmended ==
  (lastResp.kind = "news" /\ lastResp.allFailedSinceClear)
    => /\ lastResp.articles = << >>
       /\ lastResp.lastFetch = ToISOString(now)
       /\ lastResp.cacheStatus = "initial fetch"
       /\ CycleJustCompleted

\* GET /api/news has been answered after a clear-cache since which every
\* feed was rejected.
C3_Witness ==
  /\ lastResp.kind = "news"
  /\ lastResp.allFailedSinceClear
  /\ history.everCleared

\* C7: a news or fetch-now response reports the articles (or their count)
\* and the lastFetch of the cache as it is at the moment of the response;
\* and the cache only ever changes to the cleared state or, as a whole, to
\* the result of the one cycle that has just completed.
C7_SingleSnapshot ==
  /\ [](lastResp.kind \in { "news", "fetch-now" } =>
          /\ lastResp.lastFetch = cache.lastFetchDate
          /\ lastResp.count = Len(cache.articles)
          /\ lastResp.kind = "news" => lastResp.articles = cache.articles)
  /\ [][cache' # cache =>
          \/ cache' = EmptyCache
          \/ /\ Len(lastDone'.results) = NumFeeds
             /\ SameArticles(cache'.articles, lastDone'.allItems)
             /\ cache'.timestamp = now'
             /\ cache'.lastFetchDate = ToISOString(now')]_vars

\* A news request is answered from the fetch it awaited while the
\* timer's fetch cycle is half way through its feeds.
C7_Witness ==
  /\ lastResp.kind = "news"
  /\ CycleJustCompleted
  /\ lastResp.articles # << >>
  /\ cycle[Timer].active
  /\ cycle[Timer].pos > 1

\* C8: for a text whose tts requests never overlapped and none of whose
\* writes threw after creating the file, the first request answered with
\* audio made one upstream call and, its write succeeding, wrote one file,
\* the text's; every request after that first written answer made no
\* upstream call, wrote nothing and returned the bytes of that first answer.
C8_SecondServedFromCache ==
  /\ []((proxyResp.endpoint = "tts" /\ proxyResp.status = 200
           /\ ~ttsSeen[proxyResp.text].overlapped
           /\ ~ttsSeen[proxyResp.text].truncated) =>
          IF proxyResp.prior.some
          THEN /\ proxyResp.calls = 0
               /\ ~proxyResp.wrote
               /\ proxyResp.bytes = proxyResp.prior.bytes
          ELSE /\ proxyResp.calls = 1
               /\ proxyResp.wrote =>
                    files[Digest(proxyResp.text)] = FileOf(proxyResp.bytes))
  /\ [][(proxyResp'.endpoint = "tts" /\ proxyResp'.status = 200
           /\ ~ttsSeen'[proxyResp'.text].overlapped
           /\ ~ttsSeen'[proxyResp'.text].truncated) =>
          { d \in Digests : files'[d] # files[d] } =
            IF proxyResp'.wrote /\ ~proxyResp'.prior.some
            THEN { Digest(proxyResp'.text) }
            ELSE { }]_vars

\* A text whose requests never overlapped is served from its cache file,
\* with the bytes of the first answer, after that answer was written.
C8_Witness ==
  /\ proxyResp.endpoint = "tts"
  /\ proxyResp.status = 200
  /\ proxyResp.source = "cache"
  /\ proxyResp.prior.some
  /\ proxyResp.bytes = proxyResp.prior.bytes
  /\ ~ttsSeen[proxyResp.text].overlapped
  /\ ~ttsSeen[proxyResp.text].truncated

\* C9: a summarize request whose upstream call failed (fetch rejected, or
\* the API answered with a failure status) is answered 500 with error and
\* details.
C9_UpstreamFailureIs500 ==
  (proxyResp.endpoint = "summarize" /\ proxyResp.upstreamFailed)
    => /\ proxyResp.status = 500
       /\ proxyResp.error = "Failed to summarize"
       /\ proxyResp.hasDetails

\* C10: a summarize or tts request with an absent or empty text is
\* answered 400 with an error body, and the step that answers it makes no
\* upstream call and leaves the cache directory and its files as they were.
C10_MissingText ==
  /\ []((proxyResp.endpoint # "none"
           /\ proxyResp.text \in { Undefined, "" }) =>
          /\ proxyResp.status = 400
          /\ proxyResp.error = "Missing text"
          /\ proxyResp.calls = 0)
  /\ [][(proxyResp'.endpoint # "none"
           /\ proxyResp'.text \in { Undefined, "" }) =>
          /\ caller' = caller
          /\ dirExists' = dirExists
          /\ files' = files]_vars

\* A tts request with an empty text has been answered 400 while the cache
\* directory does not exist and another caller awaits its summary.
C10_Witness ==
  /\ proxyResp.endpoint = "tts"
  /\ proxyResp.text = ""
  /\ proxyResp.status = 400
  /\ ~dirExists
  /\ \E s \in CallerIds : caller[s].pc = "summarize"

\* C11: a tts request answered from the upstream audio while its cache
\* write threw is answered 200 with the upstream bytes and the audio
\* headers, and (no other request for the text having been in flight with
\* it) no cache file exists for the text afterwards.
C11_WriteFailureLeavesNoFile ==
  (proxyResp.endpoint = "tts" /\ proxyResp.source = "upstream"
     /\ ~proxyResp.wrote /\ ~ttsSeen[proxyResp.text].overlapped)
    => /\ proxyResp.status = 200
       /\ proxyResp.bytes \in Audio
       /\ proxyResp.headers = AudioHeaders(Len(proxyResp.bytes))
       /\ ~files[Digest(proxyResp.text)].exists

\* C12: a GET /api/news is answered in the step in which it arrives only
\* when the cache is non-empty and shouldFetchToday() is false, and that
\* step starts no fetch cycle and leaves the cache, the cycles in flight and
\* the timer as they were; a GET /api/news that arrives otherwise is
\* suspended on a fetch cycle of its own, and the step that answers a
\* suspended request is the step in which its cycle completes and writes
\* the cache the response is built from.
C12_CachedRequestStartsNoFetch ==
  [][/\ (lastResp'.kind = "news" /\ client' = client) =>
          /\ Len(cache.articles) > 0
          /\ ~ShouldFetchToday
          /\ cycle' = cycle
          /\ cache' = cache
          /\ timers' = timers
          /\ lastResp'.articles = cache.articles
     /\ \A c \in ClientIds :
          (client[c] = "idle" /\ client'[c] \in { "catch-up", "initial" }) =>
            /\ Len(cache.articles) = 0 \/ ShouldFetchToday
            /\ cycle'[Handler(c)] = Started
            /\ lastResp'.kind = "none"
            /\ cache' = cache
     /\ \A c \in ClientIds :
          (lastResp'.kind = "news" /\ client'[c] # client[c]) =>
            /\ cycle[Handler(c)].active
            /\ cycle[Handler(c)].pos = NumFeeds
            /\ ~cycle'[Handler(c)].active
            /\ Len(lastDone'.results) = NumFeeds
            /\ cache'.lastFetchDate = ToISOString(now')
            /\ lastResp'.articles = cache'.articles]_vars

\* A news request has been answered from the cache, no cycle completing,
\* while the timer's fetch cycle is in flight.
C12_Witness ==
  /\ lastResp.kind = "news"
  /\ lastResp.cacheStatus = "serving cached data"
  /\ lastResp.articles # << >>
  /\ ~CycleJustCompleted
  /\ cycle[Timer].active

\* The step is the timer's callback: it starts the timer's fetch cycle.
TimerFired == ~cycle[Timer].active /\ cycle'[Timer].active
\* The step ends the fetch cycle the timer's callback started.
TimerCycleEnded == cycle[Timer].active /\ ~cycle'[Timer].active

\* C13 as stated: the next timer is armed only after the fetch cycle the
\* firing started has completed, so no timer is armed while that cycle is
\* in flight.
C13_ArmsAfterCycle == cycle[Timer].active => timers = << >>

\* C13 as amended: the step in which the timer fires starts the fetch cycle
\* and arms the next timer, due later than now, in place of the one that
\* fired; the step in which that cycle completes arms nothing.
C13_ArmsAtFiring ==
  [][/\ TimerFired =>
          /\ Len(timers') = Len(timers)
          /\ timers' # << >>
          /\ timers'[Len(timers')] > now
          /\ cycle'[Timer] = Started
     /\ TimerCycleEnded => timers' = timers]_vars

\* The timer's fetch cycle is half way through its feeds and the next timer
\* is armed already.
C13_Witness ==
  /\ cycle[Timer].active
  /\ cycle[Timer].pos > 1
  /\ Len(timers) = 1
  /\ timers[1] > now

\* C14: the step in which a fetch cycle reaches its end, whichever feeds
\* were rejected, replaces the cache with what the cycle gathered and sets
\* lastFetchDate to the (non-null) time of that step; the cache is left as
\* it is by every other step but clear-cache; and the step in which the
\* timer fires leaves a timer armed for a later instant.
C14_CompletedCycleWritesCache ==
  [][/\ \A o \in Owners :
          (cycle[o].active /\ cycle[o].pos = NumFeeds /\ cycle'[o] # cycle[o])
            => /\ Len(lastDone'.results) = NumFeeds
               /\ lastDone'.results =
                    Append(cycle[o].results, lastDone'.results[NumFeeds])
               /\ SameArticles(cache'.articles,
                               ExpectedItems(lastDone'.results))
               /\ cache'.lastFetchDate = ToISOString(now)
               /\ cache'.lastFetchDate # Null
               /\ cache'.timestamp = now
     /\ Len(lastDone'.results) # NumFeeds =>
          (cache' = cache \/ (cache' = EmptyCache /\ lastResp' = ClearBody))
     /\ TimerFired =>
          \E k \in 1..Len(timers') : timers'[k] > now']_vars

\* A fetch cycle has completed at the target hour with every feed rejected,
\* after an earlier cycle had cached articles: the cache is replaced by an
\* empty list, lastFetchDate is set and a timer is armed.
C14_Witness ==
  /\ CycleJustCompleted
  /\ \A i \in 1..NumFeeds : ~lastDone.results[i].ok
  /\ ~cycle[Timer].active
  /\ Hour(WallClock(now)) = TargetHour
  /\ history.everNonEmpty
  /\ cache.articles = << >>
  /\ cache.lastFetchDate = ToISOString(now)
  /\ Len(timers) = 1
  /\ \A o \in Owners : ~cycle[o].active

\* C15: every armed timer is due at an instant at which the reference
\* zone's wall clock reads the target hour, and at the first such instant
\* after now: the timer fires at hour 7, once every reference-zone day.
C15_FiresAtTargetHour ==
  \A k \in 1..Len(timers) :
    /\ Hour(WallClock(timers[k])) = TargetHour
    /\ \A u \in (now + 1)..(timers[k] - 1) :
         Hour(WallClock(u)) # TargetHour

\* The reference zone's hour is the target hour and cache.lastFetchDate is
\* not the date string of the reference zone's day.
TargetHourAndNoFetchToday ==
  /\ WallClock(now) % HoursPerDay = TargetHour
  /\ cache.lastFetchDate #
       [fmt |-> "DateString", val |-> WallClock(now) \div HoursPerDay]

Min(S) == CHOOSE x \in S : \A y \in S : x <= y
Max(S) == CHOOSE x \in S : \A y \in S : x >= y

\* str without its leading and trailing white space.
Trimmed(str) ==
  LET inked == { i \in 1..Len(str) : str[i] \notin { " ", "\n" } }
  IN  IF inked = { } THEN << >> ELSE SubSeq(str, Min(inked), Max(inked))

\* The line of str that starts at position i.
LineFrom(str, i) ==
  SubSeq(str, i, Max({ j \in i..Len(str) :
                        \A k \in i..j : str[k] # "\n" }))

RECURSIVE LinesAt(_, _)
LinesAt(str, starts) ==
  IF starts = { } THEN << >>
  ELSE << LineFrom(str, Min(starts)) >>
         \o LinesAt(str, starts \ { Min(starts) })

\* The non-empty lines of str, in order.
NonEmptyLines(str) ==
  LinesAt(str, { i \in 1..Len(str) :
                   str[i] # "\n" /\ (i = 1 \/ str[i - 1] = "\n") })

\* A line without its bullet marker and the white space around it.
Unbulleted(line) ==
  IF Trimmed(line) # << >> /\ Head(Trimmed(line)) = "-"
  THEN Trimmed(Tail(Trimmed(line)))
  ELSE Trimmed(line)

\* The unordered-list markup of the items.
Markup(items) ==
  << "<ul style=\"padding-left:1.5em;list-style:disc;\">" >>
    \o Flatten([k \in 1..Len(items) |->
                   << "<li>" >> \o items[k] \o << "</li>" >>])
    \o << "</ul>" >>

\* The step answered a summarize request whose upstream call returned a
\* completion.
SummarizedContent ==
  /\ proxyResp.endpoint = "summarize"
  /\ ~proxyResp.upstreamFailed
  /\ proxyResp.hasContent

\* C17 as stated: if the extracted (trimmed) content begins with '-', the
\* summary is the list markup with one item per non-empty line, in order,
\* the item being the line without its bullet marker and surrounding white
\* space; otherwise it is the extracted content.
C17_OneItemPerLine ==
  SummarizedContent =>
    /\ proxyResp.status = 200
    /\ LET raw == Trimmed(proxyResp.content)
       IN  proxyResp.summary =
             IF raw # << >> /\ Head(raw) = "-"
             THEN Markup([k \in 1..Len(NonEmptyLines(raw)) |->
                            Unbulleted(NonEmptyLines(raw)[k])])
             ELSE raw

\* C17 as amended: the items are those of the lines that are not empty
\* once the bullet marker and the white space are removed; a line holding
\* only a bullet marker or white space yields no item.
C17_OneItemPerInkedLine ==
  SummarizedContent =>
    /\ proxyResp.status = 200
    /\ LET raw == Trimmed(proxyResp.content)
       IN  proxyResp.summary =
             IF raw # << >> /\ Head(raw) = "-"
             THEN Markup(SelectSeq(
                    [k \in 1..Len(NonEmptyLines(raw)) |->
                       Unbulleted(NonEmptyLines(raw)[k])],
                    LAMBDA item : item # << >>))
             ELSE raw

\* A content of four non-empty lines, one of them a bare bullet marker and
\* one a space, has been answered with a list of two items.
C17_Witness ==
  /\ SummarizedContent
  /\ Len(NonEmptyLines(Trimmed(proxyResp.content))) = 4
  /\ proxyResp.summary = Markup(<< << "a" >>, << "b" >> >>)

\* The initial fetch, started by the app.listen callback, has completed.
InitialFetchCompleted == listening /\ ~cycle[Listen].active

\* C18: at most one timer is armed at any moment, and exactly one once the
\* initial fetch has completed; the only steps that change the armed
\* timers are the completion of the initial fetch and the firing of the
\* timer, so no request handler and no other fetch cycle arms or removes
\* one.
C18_OneTimer ==
  /\ [](/\ Len(timers) <= 1
        /\ InitialFetchCompleted => Len(timers) = 1
        /\ ~InitialFetchCompleted => timers = << >>)
  /\ [][timers' # timers =>
          \/ ~InitialFetchCompleted /\ InitialFetchCompleted'
          \/ TimerFired]_vars

\* After the timer has fired and rearmed, and the cache has been cleared,
\* a request is awaiting a fetch while the timer's cycle is in flight: one
\* timer is armed, for the next day.
C18_Witness ==
  /\ Len(timers) = 1
  /\ timers[1] > now + 1
  /\ cycle[Timer].active
  /\ history.everCleared
  /\ \E c \in ClientIds : client[c] # "idle"

\* C19: every file of the cache directory is named by the digest of a text
\* and holds audio that the speech API returned in a successful response.
C19_CacheHoldsUpstreamAudio ==
  \A d \in Digests :
    files[d].exists =>
      /\ \E text \in Texts : d = Digest(text)
      /\ files[d].bytes \in Audio
====
